---- MODULE Spec2Model ----
(***************************************************************************)
(* Change tracking and notification delivery of the chemican-api gateway   *)
(* (src/index.js): the tracking store webhook_processed_records, the       *)
(* in-memory watermarks, the polling detector, the two notification sinks  *)
(* and the HTTP handlers that write the tracking store.                    *)
(*                                                                         *)
(* Node runs one JavaScript turn at a time; a handler gives up control     *)
(* only at an await on real I/O.  Every action below is one such turn (or  *)
(* the database effect of one query), so interleavings of actions are the  *)
(* interleavings the event loop can produce.                               *)
(***************************************************************************)
EXTENDS Integers, Sequences, FiniteSets, TLC

\* ---------------------------------------------------------------- bounds
MaxId == 3        \* ids handed out per identifier-tracked table
MaxPosts == 2     \* ids of blog_posts rows
MaxViews == 2     \* largest view_count
NumProcs == 2     \* detection cycles that can be in flight together

\* LIMIT 50 of the range query, scaled down so that a backlog can exceed it
BatchLimit == 2

MaxNameLen == 2   \* length of the :tableName path segment

\* ---------------------------------------------------------------- names
IdTables == {"form_submits", "subscribers", "blog_comments"}
AllTables == IdTables \cup {"blog_posts"}
Ids == 1..MaxId
PostIds == 1..MaxPosts
Procs == 1..NumProcs
Undefined == -1   \* a key absent from lastKnownBlogPostsState / a missing row

VARIABLES
  phase,                    \* "down" | "init" | "up": the process; "up" = the server listens
  budget,                   \* environment steps still allowed, by kind
  rows,                     \* [IdTables -> SUBSET Ids]: ids present in the source tables
  nextId,                   \* [IdTables -> Nat]: AUTO_INCREMENT counters
  posts,                    \* [PostIds -> view_count | Undefined]: blog_posts
  tableExists,              \* webhook_processed_records has been created
  tracked,                  \* tables that have a row in webhook_processed_records
  store,                    \* [AllTables -> Nat]: last_processed_id
  lastCheckTime,            \* [AllTables -> Nat]: last_check_time, as the number of
                            \* statements that have set it to CURRENT_TIMESTAMP
  lastKnownId,              \* lastKnownFormSubmitId / SubscriberId / BlogCommentId
  lastKnownBlogPostsState,  \* [PostIds -> view_count | Undefined]
  isInitialCheckComplete,
  webhookUrl,               \* POWER_AUTOMATE_WEBHOOK_URL is set
  emailTransporter,         \* emailTransporter is not null
  notifyOnCreate,           \* the create handler awaits sendWebhookNotification
                            \* (src/unnamed/part_001, part_002); commented out in index.js
  procs,                    \* [Procs -> cycle record]: invocations of the detector
  post,                     \* the POST /api/tables/form_submits request in flight
  reset,                    \* the POST /api/reset-tracking request in flight
  attempted,                \* history: rows whose notification attempt completed
  lowW,                     \* history: lowest stored watermark since the last boot
  bootW,                    \* history: the stored watermark found by the last boot
  fresh,                    \* history: tables that had no tracking row when the
                            \* process started
  http                      \* a request to a table endpoint and its answer

vars == <<phase, budget, rows, nextId, posts, tableExists, tracked, store,
          lastCheckTime, lastKnownId, lastKnownBlogPostsState, isInitialCheckComplete,
          webhookUrl, emailTransporter, notifyOnCreate, procs, post, reset,
          attempted, lowW, bootW, fresh, http>>

\* everything but the request at the table endpoints
coreVars == <<phase, budget, rows, nextId, posts, tableExists, tracked, store,
              lastCheckTime, lastKnownId, lastKnownBlogPostsState,
              isInitialCheckComplete, webhookUrl, emailTransporter, notifyOnCreate,
              procs, post, reset, attempted, lowW, bootW, fresh>>

dbVars == <<rows, nextId, posts, tableExists, tracked, store, lastCheckTime>>
memVars == <<lastKnownId, lastKnownBlogPostsState, isInitialCheckComplete>>
cfgVars == <<webhookUrl, emailTransporter, notifyOnCreate>>

\* ---------------------------------------------------------------- helpers
Max(S) == CHOOSE x \in S : \A y \in S : y <= x
Min(S) == CHOOSE x \in S : \A y \in S : x <= y
MaxOf(a, b) == IF a >= b THEN a ELSE b
MinOf(a, b) == IF a <= b THEN a ELSE b

RECURSIVE SortedSeq(_)
SortedSeq(S) == IF S = {} THEN <<>> ELSE <<Min(S)>> \o SortedSeq(S \ {Min(S)})

Take(s, n) == SubSeq(s, 1, MinOf(n, Len(s)))

SeqIds(s) == {s[i].id : i \in 1..Len(s)}

\* every environment step is counted against what is left for its kind
Spend(k) == budget[k] > 0 /\ budget' = [budget EXCEPT ![k] = @ - 1]

\* a database query succeeds, or fails (connection lost, pool timeout)
Query(ok) == IF ok THEN UNCHANGED budget ELSE Spend("fail")


\* ---------------------------------------------------------------- scenarios
\* A behaviour draws its environment from one scenario: which sinks are
\* configured (POWER_AUTOMATE_WEBHOOK_URL, SMTP_*), which revision of the
\* create handler runs, and how many steps of each kind the environment takes
\* (inserts, deletes, blog_posts writes, timer ticks and force-check requests,
\* reset-tracking requests, process starts, failing database queries).
Scn(i, d, v, c, r, b, f) ==
  [ins |-> i, del |-> d, view |-> v, cycle |-> c, reset |-> r, boot |-> b, fail |-> f]

AnySinks == BOOLEAN \X BOOLEAN
WebhookOnly == {<<TRUE, FALSE>>}

Scenarios ==
  { [budget |-> Scn(2, 0, 0, 2, 0, 1, 0), sinks |-> AnySinks, create |-> FALSE],     \* overlapping cycles
    [budget |-> Scn(3, 0, 0, 1, 0, 1, 0), sinks |-> AnySinks, create |-> FALSE],     \* backlog above the cap
    [budget |-> Scn(2, 0, 0, 2, 0, 2, 0), sinks |-> WebhookOnly, create |-> FALSE],  \* restart
    [budget |-> Scn(1, 0, 0, 2, 1, 2, 0), sinks |-> WebhookOnly, create |-> FALSE],  \* reset and restart
    [budget |-> Scn(0, 0, 2, 3, 0, 1, 0), sinks |-> WebhookOnly, create |-> FALSE],  \* view_count changes
    [budget |-> Scn(1, 1, 2, 1, 0, 1, 0), sinks |-> WebhookOnly, create |-> FALSE],  \* deletions
    [budget |-> Scn(1, 0, 1, 1, 0, 1, 2), sinks |-> WebhookOnly, create |-> FALSE],  \* failing queries
    [budget |-> Scn(1, 0, 0, 2, 0, 1, 1), sinks |-> WebhookOnly, create |-> FALSE],  \* a cycle after a failure
    [budget |-> Scn(0, 1, 0, 1, 1, 2, 0), sinks |-> WebhookOnly, create |-> FALSE],  \* a tracking row deleted
    [budget |-> Scn(2, 0, 0, 2, 0, 1, 0), sinks |-> WebhookOnly, create |-> TRUE] }  \* notification on create

\* ---------------------------------------------------------------- initial state
IdleProc ==
  [pc |-> "idle", kind |-> "timer", tbl |-> "form_submits",
   currentTrackedId |-> 0, batch |-> <<>>, idx |-> 0, highestProcessedId |-> 0,
   wh |-> "none", att |-> <<>>,
   proj |-> <<>>, prev |-> Undefined, changed |-> <<>>,
   err |-> FALSE,            \* a detection step of this invocation ended in its catch
   missing |-> FALSE]        \* ... logged 'No tracking record found' and returned

IdlePost == [pc |-> "idle", newRecordId |-> 0, val |-> 0,
             resp |-> "none"]   \* the answer to the last create request
IdleReset == [pc |-> "idle", tbl |-> "form_submits", resetToId |-> 0]

\* no request at the table endpoints yet
IdleHttp ==
  [pc |-> "idle", ep |-> "list", tableName |-> <<>>, body |-> "row", query |-> "none",
   status |-> 0, queries |-> 0,
   columns |-> {},    \* the columns of the INSERT / UPDATE ... SET ? that was issued
   segment |-> "",    \* DELETE: the path segment after the table name
   where |-> {}]      \* DELETE: the conditions of the statement that was issued

\* Module load (src/index.js:29-34) on a database that has no tracking table
\* yet, in one of the scenarios of S.
InitIn(S) ==
  /\ phase = "down"
  /\ \E sc \in S :
       /\ budget = sc.budget
       /\ notifyOnCreate = sc.create
       /\ \E k \in sc.sinks : webhookUrl = k[1] /\ emailTransporter = k[2]
  /\ rows = [t \in IdTables |-> {}]
  /\ nextId = [t \in IdTables |-> 1]
  /\ posts = [i \in PostIds |-> Undefined]
  /\ tableExists = FALSE
  /\ tracked = {}
  /\ store = [t \in AllTables |-> 0]
  /\ lastCheckTime = [t \in AllTables |-> 0]
  /\ lastKnownId = [t \in IdTables |-> 0]
  /\ lastKnownBlogPostsState = [i \in PostIds |-> Undefined]
  /\ isInitialCheckComplete = FALSE
  /\ procs = [p \in Procs |-> IdleProc]
  /\ post = IdlePost
  /\ reset = IdleReset
  /\ attempted = [t \in IdTables |-> {}]
  /\ lowW = [t \in IdTables |-> 0]
  /\ bootW = [t \in IdTables |-> 0]
  /\ fresh = {}
  /\ http = IdleHttp

Init == InitIn(Scenarios)

\* ---------------------------------------------------------------- tracking store
\* variant: the UPDATE has no WHERE clause
UpdateStore_all(t, v) == [u \in AllTables |-> IF u \in tracked THEN v ELSE store[u]]

\* UPDATE webhook_processed_records SET last_processed_id = v WHERE table_name = t
\* (unconditional: no comparison with the stored value; no row, no effect)
UpdateStore(t, v) == IF t \in tracked THEN [store EXCEPT ![t] = v] ELSE store

\* ... SET last_check_time = CURRENT_TIMESTAMP WHERE table_name = t
Touch(t) == IF t \in tracked THEN [lastCheckTime EXCEPT ![t] = @ + 1] ELSE lastCheckTime

\* the history variable follows every write of an identifier-tracked watermark
LowAfter(st) == [t \in IdTables |-> MinOf(lowW[t], st[t])]

\* SELECT COALESCE(MAX(id), 0) FROM t
MaxIdOf(t) ==
  IF t \in IdTables
  THEN (IF rows[t] = {} THEN 0 ELSE Max(rows[t]))
  ELSE (IF {i \in PostIds : posts[i] # Undefined} = {} THEN 0
        ELSE Max({i \in PostIds : posts[i] # Undefined}))

\* ---------------------------------------------------------------- boot
\* createTrackingTable: CREATE TABLE IF NOT EXISTS + INSERT IGNORE of four
\* zero rows; an error is caught and logged (ok = FALSE changes nothing).
createTrackingTable_tracked(ok) == IF ok THEN AllTables ELSE tracked

\* variant: the zero rows are written over the rows found (REPLACE INTO)
createTrackingTable_store_replace(ok) ==
  IF ok THEN [t \in AllTables |-> 0] ELSE store

createTrackingTable_store(ok) ==
  IF ok THEN [t \in AllTables |-> IF t \in tracked THEN store[t] ELSE 0] ELSE store

\* variant: the process starts without baselines
initializeBlogPostsState_forget == [i \in PostIds |-> Undefined]

\* initializeBlogPostsState: the snapshot is the current (id, view_count) projection
initializeBlogPostsState == [i \in PostIds |-> posts[i]]

\* initializeTableMaxId writes global[variableName], which is not the module's
\* `let` binding, so the in-memory watermark keeps its value; the tracking row
\* is upserted with the table's maximum id.
initializeTableMaxId_mirror(t, mirror) == mirror

\* initializeLastKnownIds: hydrate the mirror from the rows found; a table
\* without a row goes through initializeTableMaxId.
initializeLastKnownIds_mirror(trk, st) ==
  [t \in IdTables |-> IF t \in trk THEN st[t]
                      ELSE initializeTableMaxId_mirror(t, lastKnownId[t])]
initializeLastKnownIds_store(trk, st) ==
  [t \in AllTables |-> IF t \in trk THEN st[t] ELSE MaxIdOf(t)]

\* initializeDatabase, first await: createTrackingTable.  c: its two queries
\* succeeded (a failure is logged and initializeDatabase goes on).
StartProcess(c) ==
  /\ phase = "down"
  /\ Spend("boot")
  /\ tableExists' = (tableExists \/ c)
  /\ tracked' = createTrackingTable_tracked(c)
  /\ store' = createTrackingTable_store(c)
  /\ phase' = "init"
  /\ fresh' = AllTables \ tracked
  /\ UNCHANGED <<rows, nextId, posts, lastCheckTime, memVars, cfgVars, procs,
                 post, reset, attempted, lowW, bootW, http>>

\* initializeDatabase, second await: initializeLastKnownIds, then app.listen.
\* h: the queries of initializeLastKnownIds succeeded (a failure is logged,
\* isInitialCheckComplete stays false and the server listens all the same).
Listen(h) ==
  /\ phase = "init"
  /\ h => tableExists
  /\ LET st2 == IF h THEN initializeLastKnownIds_store(tracked, store) ELSE store
     IN /\ tracked' = IF h THEN AllTables ELSE tracked
        /\ store' = st2
        /\ lastKnownId' = IF h THEN initializeLastKnownIds_mirror(tracked, store)
                          ELSE lastKnownId
        /\ lastKnownBlogPostsState' = IF h THEN initializeBlogPostsState
                                      ELSE lastKnownBlogPostsState
        /\ isInitialCheckComplete' = h
        /\ lowW' = [t \in IdTables |-> st2[t]]
        /\ bootW' = [t \in IdTables |-> st2[t]]
  /\ phase' = "up"
  /\ UNCHANGED <<budget, rows, nextId, posts, tableExists, lastCheckTime, cfgVars,
                 procs, post, reset, attempted, fresh, http>>

\* The process exits: process.exit(0) of the SIGINT handler, or of the timer
\* the SIGTERM handler sets (5 s, whatever is in flight).  Every handler in
\* flight is gone and the module state is back to its initial values.
Shutdown ==
  /\ phase = "up"
  /\ budget["boot"] > 0
  /\ phase' = "down"
  /\ procs' = [p \in Procs |-> IdleProc]
  /\ post' = IdlePost
  /\ reset' = IdleReset
  /\ lastKnownId' = [t \in IdTables |-> 0]
  /\ lastKnownBlogPostsState' = [i \in PostIds |-> Undefined]
  /\ isInitialCheckComplete' = FALSE
  /\ UNCHANGED <<budget, dbVars, cfgVars, attempted, lowW, bootW, fresh, http>>


\* ---------------------------------------------------------------- environment
\* Another writer (or a create request for a table whose insert path does no
\* bookkeeping) inserts a row; AUTO_INCREMENT hands out the id.
ExternalInsert(t) ==
  /\ nextId[t] <= MaxId
  /\ rows' = [rows EXCEPT ![t] = @ \cup {nextId[t]}]
  /\ nextId' = [nextId EXCEPT ![t] = @ + 1]
  /\ Spend("ins")
  /\ UNCHANGED <<phase, posts, tableExists, tracked, store, lastCheckTime, memVars,
                 cfgVars, procs, post, reset, attempted, lowW, bootW, fresh, http>>

\* DELETE FROM t WHERE id = ? (delete endpoint or another writer)
DeleteRow(t, id) ==
  /\ id \in rows[t]
  /\ rows' = [rows EXCEPT ![t] = @ \ {id}]
  /\ Spend("del")
  /\ UNCHANGED <<phase, nextId, posts, tableExists, tracked, store, lastCheckTime, memVars,
                 cfgVars, procs, post, reset, attempted, lowW, bootW, fresh, http>>

\* DELETE /api/tables/webhook_processed_records/where?table_name=t: the name
\* passes the table-name check like any other, and the tracking row is gone
DeleteTrackingRow(t) ==
  /\ phase = "up"
  /\ t \in tracked
  /\ tracked' = tracked \ {t}
  /\ store' = [store EXCEPT ![t] = 0]
  /\ lastCheckTime' = [lastCheckTime EXCEPT ![t] = 0]
  /\ Spend("del")
  /\ UNCHANGED <<phase, rows, nextId, posts, tableExists, memVars, cfgVars, procs,
                 post, reset, attempted, lowW, bootW, fresh, http>>

\* a blog_posts row is created, its view_count changes, or it is deleted
SetPost(i, v) ==
  /\ posts[i] # v
  /\ posts' = [posts EXCEPT ![i] = v]
  /\ Spend("view")
  /\ UNCHANGED <<phase, rows, nextId, tableExists, tracked, store, lastCheckTime, memVars,
                 cfgVars, procs, post, reset, attempted, lowW, bootW, fresh, http>>

\* ---------------------------------------------------------------- sinks
\* sendWebhookNotification: true on a 2xx answer, false on any error; it
\* catches the error and never throws.
\* variant: the error is rethrown to the caller
sendWebhookNotification_throws(ok) ==
  [result |-> IF ok THEN "ok" ELSE "fail", threw |-> ~ok]

sendWebhookNotification(ok) ==
  [result |-> IF ok THEN "ok" ELSE "fail", threw |-> FALSE]

\* sendFormSubmissionEmail / sendSubscriberWelcomeEmail /
\* sendCommentNotificationEmail: sendMail inside try/catch, the error is logged.
sendEmail(ok) == IF ok THEN "ok" ELSE "fail"

\* ---------------------------------------------------------------- detector
\* checkForNewRecords awaits the four detection steps in this order;
\* POST /api/force-check runs checkForNewFormSubmissions only.
NextTable(pr) ==
  IF pr.kind = "timer" /\ pr.tbl # "blog_posts"
  THEN [IdleProc EXCEPT !.pc = "track", !.kind = "timer", !.err = pr.err,
          !.missing = pr.missing,
          !.tbl = CASE pr.tbl = "form_submits" -> "subscribers"
                    [] pr.tbl = "subscribers" -> "blog_comments"
                    [] OTHER -> "blog_posts"]
  ELSE IdleProc

\* variant: the error of a detection step reaches checkForNewRecords, whose
\* catch ends the cycle
QueryFailed_abort(pr) == IdleProc

\* catch (err) of a detection step: the error is logged and the step returns
\* normally, so checkForNewRecords goes on with the next table
QueryFailed(pr) == NextTable([pr EXCEPT !.err = TRUE])

\* variant: a table without a tracking row is checked from watermark zero
NoTrackingRow_fromZero(pr) == [pr EXCEPT !.pc = "fetch", !.currentTrackedId = 0]

\* if (trackingRow.length === 0): console.error(...) and return
NoTrackingRow(pr) == NextTable([pr EXCEPT !.missing = TRUE])

\* SELECT last_processed_id FROM webhook_processed_records WHERE table_name = t
\* variant: the in-memory watermark is used instead of the stored one
TrackedId_mirror(t) == lastKnownId[t]

TrackedId(t) == store[t]

\* variant: ORDER BY id DESC
OrderByIdAsc_desc(S) ==
  [k \in 1..Cardinality(S) |-> SortedSeq(S)[Cardinality(S) + 1 - k]]

\* ORDER BY id ASC
OrderByIdAsc(S) == SortedSeq(S)

\* variant: the range query without its LIMIT
RangeQuery_unbounded(t, w) == OrderByIdAsc({id \in rows[t] : id > w})

\* SELECT * FROM t WHERE id > w ORDER BY id ASC LIMIT 50
RangeQuery(t, w) == Take(OrderByIdAsc({id \in rows[t] : id > w}), BatchLimit)

\* variant: a failed webhook ends the loop
AfterRow_abort(pr, wh, em) ==
  [pr EXCEPT !.att = Append(@, [id |-> pr.batch[pr.idx], wh |-> wh, em |-> em]),
             !.highestProcessedId = pr.batch[pr.idx],
             !.idx = IF wh = "fail" THEN Len(pr.batch) + 1 ELSE @ + 1,
             !.wh = "none"]

\* the row has been handed to both sinks: highestProcessedId = row.id, whatever
\* the sinks answered, and the loop goes on with the next row
AfterRow(pr, wh, em) ==
  [pr EXCEPT !.att = Append(@, [id |-> pr.batch[pr.idx], wh |-> wh, em |-> em]),
             !.highestProcessedId = pr.batch[pr.idx],
             !.idx = @ + 1,
             !.wh = "none"]

\* catch (err) inside the loop: the error is logged, highestProcessedId keeps
\* its value and the loop goes on with the next row
Caught(pr, wh) ==
  [pr EXCEPT !.att = Append(@, [id |-> pr.batch[pr.idx], wh |-> wh, em |-> "none"]),
             !.idx = @ + 1,
             !.wh = "none"]

\* the for-loop of a detection step, run up to its next await on a sink
\* (a sink that is not configured returns at once), or to the end of the batch
RECURSIVE RunLoop(_)
RunLoop(pr) ==
  IF pr.idx > Len(pr.batch) THEN [pr EXCEPT !.pc = "endloop"]
  ELSE IF pr.batch[pr.idx] > pr.highestProcessedId
       THEN IF webhookUrl THEN [pr EXCEPT !.pc = "webhook"]
            ELSE IF emailTransporter THEN [pr EXCEPT !.pc = "email", !.wh = "skip"]
            ELSE RunLoop(AfterRow(pr, "skip", "skip"))
       ELSE RunLoop([pr EXCEPT !.idx = @ + 1])

\* after the loop: if (highestProcessedId > currentTrackedId) the in-memory
\* watermark is set and the UPDATE is issued; otherwise the step returns
Settle(p, r) ==
  IF r.pc # "endloop"
  THEN /\ procs' = [procs EXCEPT ![p] = r]
       /\ UNCHANGED lastKnownId
  ELSE IF r.highestProcessedId > r.currentTrackedId
       THEN /\ lastKnownId' = [lastKnownId EXCEPT ![r.tbl] = r.highestProcessedId]
            /\ procs' = [procs EXCEPT ![p] = [r EXCEPT !.pc = "persist"]]
       ELSE /\ procs' = [procs EXCEPT ![p] = NextTable(r)]
            /\ UNCHANGED lastKnownId

\* invocations are interchangeable: a new one takes the first free slot
FreeProc(p) == procs[p].pc = "idle" /\ \A q \in Procs : q < p => procs[q].pc # "idle"

\* setInterval(checkForNewRecords, 10000) fires, whether or not an earlier
\* invocation is still running; nothing happens before the initial check.
TimerTick(p) ==
  /\ phase = "up"
  /\ FreeProc(p)
  /\ isInitialCheckComplete
  /\ procs' = [procs EXCEPT ![p] = [IdleProc EXCEPT !.pc = "track", !.kind = "timer"]]
  /\ Spend("cycle")
  /\ UNCHANGED <<phase, dbVars, memVars, cfgVars, post, reset, attempted, lowW, bootW, fresh, http>>

\* POST /api/force-check
ForceCheck(p) ==
  /\ phase = "up"
  /\ FreeProc(p)
  /\ procs' = [procs EXCEPT ![p] = [IdleProc EXCEPT !.pc = "track", !.kind = "force"]]
  /\ Spend("cycle")
  /\ UNCHANGED <<phase, dbVars, memVars, cfgVars, post, reset, attempted, lowW, bootW, fresh, http>>

\* the tracking row arrives: no row, the step returns; else the range query
\* is issued.  The query fails when there is no tracking table.
ReadTracking(p, ok) ==
  /\ procs[p].pc = "track"
  /\ procs[p].tbl \in IdTables
  /\ ok => tableExists
  /\ Query(ok \/ ~tableExists)
  /\ LET pr == procs[p] IN
       procs' = [procs EXCEPT ![p] =
                   IF ~ok THEN QueryFailed(pr)
                   ELSE IF pr.tbl \in tracked
                   THEN [pr EXCEPT !.pc = "fetch", !.currentTrackedId = TrackedId(pr.tbl)]
                   ELSE NoTrackingRow(pr)]
  /\ UNCHANGED <<phase, dbVars, memVars, cfgVars, post, reset, attempted, lowW, bootW, fresh, http>>

\* the batch arrives: empty, the step returns; else the loop starts
FetchBatch(p, ok) ==
  /\ procs[p].pc = "fetch"
  /\ Query(ok)
  /\ LET pr == procs[p]
         b  == RangeQuery(pr.tbl, pr.currentTrackedId)
     IN IF ~ok
        THEN /\ procs' = [procs EXCEPT ![p] = QueryFailed(pr)]
             /\ UNCHANGED lastKnownId
        ELSE IF b = <<>>
        THEN /\ procs' = [procs EXCEPT ![p] = NextTable(pr)]
             /\ UNCHANGED lastKnownId
        ELSE Settle(p, RunLoop([pr EXCEPT !.batch = b, !.idx = 1,
                                          !.highestProcessedId = pr.currentTrackedId]))
  /\ UNCHANGED <<phase, dbVars, lastKnownBlogPostsState,
                 isInitialCheckComplete, cfgVars, post, reset, attempted, lowW, bootW, fresh, http>>

\* axios.post settles for the current row; the email sink is called next
WebhookDone(p, ok) ==
  /\ procs[p].pc = "webhook"
  /\ LET pr == procs[p]
         r  == sendWebhookNotification(ok)
     IN IF r.threw
        THEN /\ Settle(p, RunLoop(Caught(pr, r.result)))
             /\ attempted' = [attempted EXCEPT ![pr.tbl] = @ \cup {pr.batch[pr.idx]}]
        ELSE IF emailTransporter
        THEN /\ procs' = [procs EXCEPT ![p] = [pr EXCEPT !.pc = "email", !.wh = r.result]]
             /\ UNCHANGED <<lastKnownId, attempted>>
        ELSE /\ Settle(p, RunLoop(AfterRow(pr, r.result, "skip")))
             /\ attempted' = [attempted EXCEPT ![pr.tbl] = @ \cup {pr.batch[pr.idx]}]
  /\ UNCHANGED <<phase, budget, dbVars, lastKnownBlogPostsState,
                 isInitialCheckComplete, cfgVars, post, reset, lowW, bootW, fresh, http>>

\* sendMail settles for the current row
EmailDone(p, ok) ==
  /\ procs[p].pc = "email"
  /\ LET pr == procs[p] IN
       /\ Settle(p, RunLoop(AfterRow(pr, pr.wh, sendEmail(ok))))
       /\ attempted' = [attempted EXCEPT ![pr.tbl] = @ \cup {pr.batch[pr.idx]}]
  /\ UNCHANGED <<phase, budget, dbVars, lastKnownBlogPostsState,
                 isInitialCheckComplete, cfgVars, post, reset, lowW, bootW, fresh, http>>

\* the UPDATE of the tracking row takes effect, or fails; the step is over
Persist(p, ok) ==
  /\ procs[p].pc = "persist"
  /\ Query(ok)
  /\ LET pr == procs[p]
         st == IF ok THEN UpdateStore(pr.tbl, pr.highestProcessedId) ELSE store
     IN /\ store' = st
        /\ lastCheckTime' = IF ok THEN Touch(pr.tbl) ELSE lastCheckTime
        /\ lowW' = LowAfter(st)
        /\ procs' = [procs EXCEPT ![p] = IF ok THEN NextTable(pr) ELSE QueryFailed(pr)]
  /\ UNCHANGED <<phase, rows, nextId, posts, tableExists, tracked,
                 memVars, cfgVars, post, reset, attempted, bootW, fresh, http>>


\* ---------------------------------------------------------------- view_count detector
\* SELECT id, view_count FROM blog_posts
Projection ==
  LET ids == SortedSeq({i \in PostIds : posts[i] # Undefined})
  IN [k \in 1..Len(ids) |-> [id |-> ids[k], view_count |-> posts[ids[k]]]]

\* variant: the difference is not taken against the previous value
changeDetails_nodiff(previousViewCount, viewCount) ==
  [previous_view_count |-> IF previousViewCount = Undefined THEN 0 ELSE previousViewCount,
   new_view_count |-> viewCount,
   difference |-> viewCount]

\* _change_details of a changed post
changeDetails(previousViewCount, viewCount) ==
  [previous_view_count |-> IF previousViewCount = Undefined THEN 0 ELSE previousViewCount,
   new_view_count |-> viewCount,
   difference |-> IF previousViewCount = Undefined THEN viewCount
                  ELSE viewCount - previousViewCount]

\* a post is changed when it has no snapshot entry or a different view_count
isChanged(previousViewCount, viewCount) ==
  previousViewCount = Undefined \/ previousViewCount # viewCount

\* the comparison loop, run up to the next changed post (whose full row is
\* then awaited) or to the end of the projection
RECURSIVE BlogScan(_, _)
BlogScan(pr, snap) ==
  IF pr.idx > Len(pr.proj) THEN [pr EXCEPT !.pc = "bp_endscan"]
  ELSE IF isChanged(snap[pr.proj[pr.idx].id], pr.proj[pr.idx].view_count)
       THEN [pr EXCEPT !.pc = "bp_full", !.prev = snap[pr.proj[pr.idx].id]]
       ELSE BlogScan([pr EXCEPT !.idx = @ + 1], snap)

\* after the comparison loop: nothing changed, return; else notify each changed
\* post (at once when no webhook is configured) and issue the UPDATE
BlogSettle(r) ==
  IF r.pc # "bp_endscan" THEN r
  ELSE IF r.changed = <<>> THEN IdleProc
  ELSE IF webhookUrl THEN [r EXCEPT !.pc = "bp_hook", !.prev = Undefined]
  ELSE [r EXCEPT !.pc = "bp_persist", !.prev = Undefined,
                 !.att = [k \in 1..Len(r.changed) |->
                            [id |-> r.changed[k].id, wh |-> "skip", em |-> "none"]]]

\* the projection arrives and the comparison loop starts
BlogProject(p, ok) ==
  /\ procs[p].pc = "track"
  /\ procs[p].tbl = "blog_posts"
  /\ Query(ok)
  /\ procs' = [procs EXCEPT ![p] =
       IF ~ok THEN QueryFailed(procs[p])
       ELSE BlogSettle(BlogScan([procs[p] EXCEPT !.proj = Projection, !.idx = 1],
                                lastKnownBlogPostsState))]
  /\ UNCHANGED <<phase, dbVars, memVars, cfgVars, post, reset, attempted, lowW, bootW, fresh, http>>

\* SELECT * FROM blog_posts WHERE id = ? arrives for the changed post: when
\* the row is still there the change is recorded and the snapshot updated
BlogFull(p, ok) ==
  /\ procs[p].pc = "bp_full"
  /\ Query(ok)
  /\ LET pr   == procs[p]
         cur  == pr.proj[pr.idx]
         here == posts[cur.id] # Undefined
         snap == IF here THEN [lastKnownBlogPostsState EXCEPT ![cur.id] = cur.view_count]
                 ELSE lastKnownBlogPostsState
         r    == [pr EXCEPT !.idx = @ + 1,
                            !.changed = IF here
                                        THEN Append(@, [id |-> cur.id] @@
                                                       changeDetails(pr.prev, cur.view_count))
                                        ELSE @]
     IN IF ok
        THEN /\ lastKnownBlogPostsState' = snap
             /\ procs' = [procs EXCEPT ![p] = BlogSettle(BlogScan(r, snap))]
        ELSE /\ UNCHANGED lastKnownBlogPostsState
             /\ procs' = [procs EXCEPT ![p] = QueryFailed(pr)]
  /\ UNCHANGED <<phase, dbVars, lastKnownId, isInitialCheckComplete,
                 cfgVars, post, reset, attempted, lowW, bootW, fresh, http>>

\* the webhook call for a changed post settles
BlogHookDone(p, ok) ==
  /\ procs[p].pc = "bp_hook"
  /\ LET pr == procs[p]
         r  == [pr EXCEPT !.att = Append(@, [id |-> pr.changed[Len(pr.att) + 1].id,
                                             wh |-> sendWebhookNotification(ok).result,
                                             em |-> "none"])]
     IN procs' = [procs EXCEPT ![p] =
                    IF Len(r.att) = Len(r.changed) THEN [r EXCEPT !.pc = "bp_persist"] ELSE r]
  /\ UNCHANGED <<phase, budget, dbVars, memVars, cfgVars, post, reset, attempted, lowW, bootW, fresh, http>>

\* Math.max(...currentPosts.map(post => post.id), 0)
highestBlogPostId(proj) == Max({proj[k].id : k \in 1..Len(proj)} \cup {0})

\* the UPDATE of the blog_posts tracking row takes effect, or fails
BlogPersist(p, ok) ==
  /\ procs[p].pc = "bp_persist"
  /\ Query(ok)
  /\ store' = IF ok THEN UpdateStore("blog_posts", highestBlogPostId(procs[p].proj))
               ELSE store
  /\ lastCheckTime' = IF ok THEN Touch("blog_posts") ELSE lastCheckTime
  /\ procs' = [procs EXCEPT ![p] = IF ok THEN IdleProc ELSE QueryFailed(procs[p])]
  /\ UNCHANGED <<phase, rows, nextId, posts, tableExists, tracked,
                 memVars, cfgVars, post, reset, attempted, lowW, bootW, fresh, http>>

\* ---------------------------------------------------------------- POST /api/tables/form_submits
\* the INSERT takes effect
PostInsert ==
  /\ phase = "up"
  /\ post.pc = "idle"
  /\ nextId["form_submits"] <= MaxId
  /\ rows' = [rows EXCEPT !["form_submits"] = @ \cup {nextId["form_submits"]}]
  /\ nextId' = [nextId EXCEPT !["form_submits"] = @ + 1]
  /\ post' = [IdlePost EXCEPT !.pc = "inserted", !.newRecordId = nextId["form_submits"]]
  /\ Spend("ins")
  /\ UNCHANGED <<phase, posts, tableExists, tracked, store, lastCheckTime, memVars, cfgVars,
                 procs, reset, attempted, lowW, bootW, fresh, http>>

\* lastKnownFormSubmitId = Math.max(lastKnownFormSubmitId, newRecordId), and
\* the UPDATE of the tracking row is issued with that value
PostBookkeeping(mirror, newRecordId) == MaxOf(mirror, newRecordId)

PostMirror ==
  /\ post.pc = "inserted"
  /\ LET v == PostBookkeeping(lastKnownId["form_submits"], post.newRecordId) IN
       /\ lastKnownId' = [lastKnownId EXCEPT !["form_submits"] = v]
       /\ post' = [post EXCEPT !.pc = "updating", !.val = v]
  /\ UNCHANGED <<phase, budget, dbVars, lastKnownBlogPostsState,
                 isInitialCheckComplete, cfgVars, procs, reset, attempted, lowW, bootW, fresh, http>>

\* res.json({ id: newRecordId, ...data }) / res.status(500) of the outer catch
Respond(code) == [IdlePost EXCEPT !.resp = code]

\* the UPDATE takes effect, or fails (it fails when there is no tracking
\* table); an error goes to the outer catch.  Then the notification call:
\* commented out in index.js, awaited in src/unnamed/part_001 and part_002.
PostUpdate(ok) ==
  /\ post.pc = "updating"
  /\ ok => tableExists
  /\ Query(ok \/ ~tableExists)
  /\ LET st == IF ok THEN UpdateStore("form_submits", post.val) ELSE store IN
       /\ store' = st
       /\ lowW' = LowAfter(st)
  /\ lastCheckTime' = IF ok THEN Touch("form_submits") ELSE lastCheckTime
  /\ post' = IF ~ok THEN Respond("error")
             ELSE IF notifyOnCreate /\ webhookUrl THEN [post EXCEPT !.pc = "notify"]
             ELSE Respond("ok")
  /\ UNCHANGED <<phase, rows, nextId, posts, tableExists, tracked,
                 memVars, cfgVars, procs, reset, attempted, bootW, fresh, http>>

\* src/unnamed/part_001: await sendWebhookNotification(...) settles inside
\* its own try/catch (whatever the webhook answered), and only then the
\* response is sent
PostNotifyDone ==
  /\ post.pc = "notify"
  /\ attempted' = [attempted EXCEPT !["form_submits"] = @ \cup {post.newRecordId}]
  /\ post' = Respond("ok")
  /\ UNCHANGED <<phase, budget, dbVars, memVars, cfgVars, procs, reset, lowW, bootW, fresh, http>>

\* ---------------------------------------------------------------- POST /api/reset-tracking/:tableName
ResetValues == 0..MaxId

\* the request arrives, with or without resetToId in the body
ResetStart(t, given, v) ==
  /\ phase = "up"
  /\ reset.pc = "idle"
  /\ reset' = [pc |-> IF given THEN "update" ELSE "max", tbl |-> t,
               resetToId |-> IF given THEN v ELSE 0]
  /\ Spend("reset")
  /\ UNCHANGED <<phase, dbVars, memVars, cfgVars, procs, post, attempted, lowW, bootW, fresh, http>>

\* SELECT COALESCE(MAX(id), 0) arrives, or fails (answer 500)
ResetMax(ok) ==
  /\ reset.pc = "max"
  /\ Query(ok)
  /\ reset' = IF ok THEN [reset EXCEPT !.pc = "update", !.resetToId = MaxIdOf(reset.tbl)]
              ELSE IdleReset
  /\ UNCHANGED <<phase, dbVars, memVars, cfgVars, procs, post, attempted, lowW, bootW, fresh, http>>

\* the UPDATE takes effect, or fails (answer 500); it fails when there is no
\* tracking table
ResetUpdate(ok) ==
  /\ reset.pc = "update"
  /\ ok => tableExists
  /\ Query(ok \/ ~tableExists)
  /\ LET st == IF ok THEN UpdateStore(reset.tbl, reset.resetToId) ELSE store IN
       /\ store' = st
       /\ lowW' = LowAfter(st)
  /\ lastCheckTime' = IF ok THEN Touch(reset.tbl) ELSE lastCheckTime
  /\ reset' = IF ok THEN [reset EXCEPT !.pc = "respond"] ELSE IdleReset
  /\ UNCHANGED <<phase, rows, nextId, posts, tableExists, tracked,
                 memVars, cfgVars, procs, post, attempted, bootW, fresh, http>>

\* only lastKnownFormSubmitId is refreshed; the response is sent
ResetRespond ==
  /\ reset.pc = "respond"
  /\ lastKnownId' = IF reset.tbl = "form_submits"
                    THEN [lastKnownId EXCEPT !["form_submits"] = reset.resetToId]
                    ELSE lastKnownId
  /\ reset' = IdleReset
  /\ UNCHANGED <<phase, budget, dbVars, lastKnownBlogPostsState,
                 isInitialCheckComplete, cfgVars, procs, post, attempted, lowW, bootW, fresh, http>>

\* ---------------------------------------------------------------- table endpoints
\* The endpoints that take :tableName.  A request is the path segment, the
\* kind of payload extractDataFromRequest yields (create, update) and the
\* kind of query string (search, delete-where).
Endpoints ==
  {"list", "search", "get", "create", "update", "deleteWhere", "delete", "resetTracking"}

\* characters a path segment is made of here: a letter of either case, a
\* digit, the underscore, and two characters outside the class
Chars == {"a", "Z", "9", "_", ";", "-"}
WordChars == {"a", "Z", "9", "_"}    \* [a-zA-Z0-9_], as far as Chars goes
Names == UNION {[1..n -> Chars] : n \in 1..MaxNameLen}

\* what extractDataFromRequest yields: a value that is not an object (a
\* string, a number, null), the objects {}, {id}, {name}, {id, name}, and the
\* arrays [] and [{id, name}]
Bodies == {"string", "empty", "idOnly", "row", "idRow", "emptyArray", "array"}
JsonObjects == {"empty", "idOnly", "row", "idRow"}

\* typeof data === 'object' && data !== null: true of an array as well
IsObjectType(body) == body # "string"

\* the own enumerable keys of data (Object.keys); an array has its indices
OwnKeys(body) ==
  CASE body = "idOnly" -> {"id"}
    [] body = "row" -> {"name"}
    [] body = "idRow" -> {"id", "name"}
    [] body = "array" -> {"0"}
    [] OTHER -> {}

\* if (data.id !== undefined) delete data.id
StripId(keys) == keys \ {"id"}

\* pool.query(sql, data): an array is taken as the list of placeholder
\* values, so SET ? expands to the columns of its first element; an object
\* is the one value, and SET ? expands to its keys
SetColumns(body, keys) == IF body = "array" THEN {"id", "name"} ELSE keys
\* "object": every name is a word, one parameter is written name[key]=v, which
\* req.query holds as the object {key: v}
QueryStrings == {"none", "badField", "fields", "object"}

\* DELETE /api/tables/:tableName/<segment>
Segments == {"where", "7", "g"}

\* the routes are tried in the order of their registration and neither handler
\* passes the request on: /:tableName/where comes before /:tableName/:idOrGuid
DeleteRoute(segment) == IF segment = "where" THEN "deleteWhere" ELSE "delete"

\* fields.map(f => `\`${f}\` = ?`) with values = fields.map(f => conditions[f]):
\* a string is escaped to a literal, `f` = 'v'; an object is expanded by
\* pool.query to its own `key` = 'v' pairs, `f` = `key` = 'v', a comparison of
\* two columns whose key never met the field-name pattern
WhereClauses(query) ==
  CASE query = "fields" -> {"field = value"}
    [] query = "object" -> {"field = key = value"}
    [] OTHER -> {}

\* variant: the pattern without its anchors, /[a-zA-Z0-9_]+/
ValidTableName_unanchored(s) == \E i \in 1..Len(s) : s[i] \in WordChars

\* /^[a-zA-Z0-9_]+$/.test(tableName)
ValidTableName(s) == Len(s) >= 1 /\ \A i \in 1..Len(s) : s[i] \in WordChars

\* the part of a handler that runs before its first query: TRUE when it
\* answers 400, in the order of the handler's checks
Rejects(ep, tableName, body, query) ==
  CASE ep \in {"create", "update"} ->
         \/ ~IsObjectType(body)                   \* typeof data !== 'object' || data === null
         \/ ~ValidTableName(tableName)
         \/ StripId(OwnKeys(body)) = {}           \* Object.keys(data).length === 0
    [] ep = "search" ->
         \/ ~ValidTableName(tableName)
         \/ query = "none"                        \* !field || !value
         \/ query = "badField"
    [] ep = "deleteWhere" ->
         \/ ~ValidTableName(tableName)
         \/ query = "none"                        \* fields.length === 0
         \/ query = "badField"
    [] OTHER -> ~ValidTableName(tableName)         \* list, get, delete, resetTracking

\* a handler up to its first await: the request is answered 400, or the
\* handler's first query is issued
Handle(ep, tableName, body, query) ==
  [pc |-> IF Rejects(ep, tableName, body, query) THEN "answered" ELSE "query",
   ep |-> ep, tableName |-> tableName, body |-> body, query |-> query,
   status |-> IF Rejects(ep, tableName, body, query) THEN 400 ELSE 0,
   queries |-> IF Rejects(ep, tableName, body, query) THEN 0 ELSE 1,
   columns |-> IF ep \in {"create", "update"} /\ ~Rejects(ep, tableName, body, query)
               THEN SetColumns(body, StripId(OwnKeys(body))) ELSE {},
   segment |-> "",
   where |-> IF Rejects(ep, tableName, body, query) THEN {}
             ELSE IF ep = "deleteWhere" THEN WhereClauses(query)
             ELSE IF ep = "delete" THEN {"field = value"}   \* WHERE id = ? / guid = ?
             ELSE {}]

\* a request arrives at one of the table endpoints
HttpRequest ==
  /\ http.pc = "idle"
  /\ \E n \in Names, b \in Bodies, q \in QueryStrings :
       \/ \E ep \in Endpoints \ {"deleteWhere", "delete"} : http' = Handle(ep, n, b, q)
       \/ \E sg \in Segments :
            http' = [Handle(DeleteRoute(sg), n, b, q) EXCEPT !.segment = sg]
  /\ UNCHANGED coreVars

\* the query comes back and the handler answers (500 from its catch)
HttpAnswer(ok) ==
  /\ http.pc = "query"
  /\ http' = [http EXCEPT !.pc = "answered", !.status = IF ok THEN 200 ELSE 500]
  /\ UNCHANGED coreVars

NextHttp ==
  \/ HttpRequest
  \/ \E ok \in BOOLEAN : HttpAnswer(ok)

\* the table endpoints on their own: one request, nothing else going on
Quiet == [budget |-> Scn(0, 0, 0, 0, 0, 0, 0), sinks |-> WebhookOnly, create |-> FALSE]

InitHttp == InitIn({Quiet})

SpecHttp == InitHttp /\ [][NextHttp]_vars

\* ---------------------------------------------------------------- draining a backlog
\* The detector on its own: a backlog builds up before the first cycle
\* starts, no row arrives after that, every query and every sink call
\* succeeds, and nothing but the cycles writes the tracking store.
\* (a backlog of one row more than a batch holds, three cycles)
Draining ==
  [budget |-> Scn(BatchLimit + 1, 0, 0, 3, 0, 1, 0), sinks |-> AnySinks, create |-> FALSE]

\* invocations of the detector so far
CyclesStarted == Draining.budget["cycle"] - budget["cycle"]

Backlog(t) ==
  /\ phase = "up"
  /\ CyclesStarted = 0
  /\ ExternalInsert(t)

NextDrain ==
  \/ StartProcess(TRUE)
  \/ Listen(TRUE)
  \/ \E t \in IdTables : Backlog(t)
  \/ \E p \in Procs : TimerTick(p)
  \/ \E p \in Procs : ForceCheck(p)
  \/ \E p \in Procs : ReadTracking(p, TRUE)
  \/ \E p \in Procs : FetchBatch(p, TRUE)
  \/ \E p \in Procs : WebhookDone(p, TRUE)
  \/ \E p \in Procs : EmailDone(p, TRUE)
  \/ \E p \in Procs : Persist(p, TRUE)
  \/ \E p \in Procs : BlogProject(p, TRUE)

InitDrain == InitIn({Draining})

SpecDrain == InitDrain /\ [][NextDrain]_vars

\* ---------------------------------------------------------------- the first cycle of a process run
\* The view_count detector around a start of the process: blog_posts is
\* written at any time, the process starts (and restarts), and one timer
\* cycle runs, so that every cycle is the first one since its process started.
NextRestart ==
  \/ StartProcess(TRUE)
  \/ Listen(TRUE)
  \/ Shutdown
  \/ \E i \in PostIds, v \in (0..MaxViews) \cup {Undefined} : SetPost(i, v)
  \/ \E p \in Procs : TimerTick(p)
  \/ \E p \in Procs : ReadTracking(p, TRUE)
  \/ \E p \in Procs : FetchBatch(p, TRUE)
  \/ \E p \in Procs : BlogProject(p, TRUE)
  \/ \E p \in Procs : BlogFull(p, TRUE)
  \/ \E p \in Procs, ok \in BOOLEAN : BlogHookDone(p, ok)
  \/ \E p \in Procs : BlogPersist(p, TRUE)

Restarting == [budget |-> Scn(0, 0, 2, 1, 0, 2, 0), sinks |-> WebhookOnly, create |-> FALSE]

InitRestart == InitIn({Restarting})

SpecRestart == InitRestart /\ [][NextRestart]_vars

\* ---------------------------------------------------------------- specification
Next ==
  \/ \E c \in BOOLEAN : StartProcess(c)
  \/ \E h \in BOOLEAN : Listen(h)
  \/ Shutdown
  \/ \E t \in IdTables : ExternalInsert(t)
  \/ \E t \in IdTables, id \in Ids : DeleteRow(t, id)
  \/ \E t \in AllTables : DeleteTrackingRow(t)
  \/ \E i \in PostIds, v \in (0..MaxViews) \cup {Undefined} : SetPost(i, v)
  \/ \E p \in Procs : TimerTick(p)
  \/ \E p \in Procs : ForceCheck(p)
  \/ \E p \in Procs, ok \in BOOLEAN : ReadTracking(p, ok)
  \/ \E p \in Procs, ok \in BOOLEAN : FetchBatch(p, ok)
  \/ \E p \in Procs, ok \in BOOLEAN : WebhookDone(p, ok)
  \/ \E p \in Procs, ok \in BOOLEAN : EmailDone(p, ok)
  \/ \E p \in Procs, ok \in BOOLEAN : Persist(p, ok)
  \/ \E p \in Procs, ok \in BOOLEAN : BlogProject(p, ok)
  \/ \E p \in Procs, ok \in BOOLEAN : BlogFull(p, ok)
  \/ \E p \in Procs, ok \in BOOLEAN : BlogHookDone(p, ok)
  \/ \E p \in Procs, ok \in BOOLEAN : BlogPersist(p, ok)
  \/ PostInsert
  \/ PostMirror
  \/ \E ok \in BOOLEAN : PostUpdate(ok)
  \/ PostNotifyDone
  \/ \E t \in AllTables, given \in BOOLEAN, v \in ResetValues : ResetStart(t, given, v)
  \/ \E ok \in BOOLEAN : ResetMax(ok)
  \/ \E ok \in BOOLEAN : ResetUpdate(ok)
  \/ ResetRespond

Spec == Init /\ [][Next]_vars


\* ---------------------------------------------------------------- vocabulary of the properties
InLoop(p) == procs[p].tbl \in IdTables /\ procs[p].pc \in {"webhook", "email", "persist"}
InProgress(p, t) == procs[p].pc # "idle" /\ procs[p].tbl = t
RowOk(a) == a.wh # "fail" /\ a.em # "fail"
AllOk(pr) == \A k \in 1..Len(pr.att) : RowOk(pr.att[k])

\* rows that have been handed to the sinks by the cycle in slot p
Dispatched(p) ==
  SeqIds(procs[p].att) \cup
    (IF procs[p].pc \in {"webhook", "email"} THEN {procs[p].batch[procs[p].idx]} ELSE {})

\* no database query fails in the step
NoFailure == budget'["fail"] = budget["fail"]

\* the UPDATE of a detection step / of the insert path / of reset-tracking lands
PersistStep(p) ==
  procs[p].pc = "persist" /\ procs'[p].pc # "persist" /\ phase' = "up" /\ NoFailure
PostUpdateStep == post.pc = "updating" /\ post'.pc # "updating" /\ phase' = "up"
ResetUpdateStep(t) == reset.pc = "update" /\ reset'.pc = "respond" /\ reset.tbl = t

\* id of the last row of the longest prefix of the batch whose dispatches all
\* succeeded; the watermark read at the start of the cycle when there is none
PrefixWatermark(pr) ==
  LET good == {k \in 1..Len(pr.att) : \A j \in 1..k : RowOk(pr.att[j])}
  IN IF good = {} THEN pr.currentTrackedId ELSE pr.att[Max(good)].id

\* ---------------------------------------------------------------- C1
\* C1: the watermark a poll cycle persists is the id of the last row of the
\* longest prefix of its batch whose dispatches all succeeded (the watermark it
\* started from when the first row failed); it never reaches a failed row.
C1_ContiguousPrefix ==
  \A p \in Procs :
    (procs[p].tbl \in IdTables /\ procs[p].pc = "persist")
      => procs[p].highestProcessedId = PrefixWatermark(procs[p])

\* ---------------------------------------------------------------- C2
\* C2: a write of the tracking store by a poll cycle, a force-check or the
\* insert path of POST /api/tables/form_submits moves the stored watermark to
\* or past a row's id only after a notification attempt for that row completed.
C2_AttemptBeforeAdvance ==
  [][ \A t \in IdTables :
        ((\E p \in Procs : PersistStep(p) /\ procs[p].tbl = t)
           \/ (t = "form_submits" /\ PostUpdateStep))
        => \A id \in rows[t] :
             (store[t] < id /\ store'[t] >= id) => id \in attempted[t] ]_vars

\* ---------------------------------------------------------------- C3
\* C3: a row whose sink failed in a cycle stays above the stored watermark when
\* the cycle persists, so that the next cycle fetches and attempts it again.
C3_RetryUntilSuccess ==
  [][ \A p \in Procs :
        (PersistStep(p) /\ procs[p].tbl \in IdTables)
        => \A k \in 1..Len(procs[p].att) :
             ~RowOk(procs[p].att[k]) => store'[procs[p].tbl] < procs[p].att[k].id ]_vars

\* ---------------------------------------------------------------- C4
\* C4: the last_processed_id of a watched table never decreases, except by the
\* UPDATE of a reset-tracking request for that table.
C4_Monotonic ==
  [][ \A t \in AllTables : store'[t] >= store[t] \/ ResetUpdateStep(t) ]_vars

\* ---------------------------------------------------------------- C5
\* C5: two detection cycles for the same watched table are never in progress
\* at the same time.
C5_MutualExclusion ==
  \A p, q \in Procs : \A t \in AllTables :
    (p # q) => ~(InProgress(p, t) /\ InProgress(q, t))

\* ---------------------------------------------------------------- C6
\* C6 as stated: after a restart that found the persisted watermark W, no poll
\* cycle dispatches a row with id <= W.
C6_Original ==
  \A p \in Procs :
    procs[p].tbl \in IdTables => \A id \in Dispatched(p) : id > bootW[procs[p].tbl]

\* C6 as amended: no poll cycle dispatches a row whose id is less than or
\* equal to the lowest value the stored watermark has had since the restart.
C6_NoDuplicateOnRestart ==
  \A p \in Procs :
    procs[p].tbl \in IdTables => \A id \in Dispatched(p) : id > lowW[procs[p].tbl]

\* a cycle dispatches a row after a restart that found a watermark above zero
C6_Witness ==
  \E p \in Procs :
    /\ procs[p].tbl \in IdTables
    /\ bootW[procs[p].tbl] > 0
    /\ Dispatched(p) # {}

\* ---------------------------------------------------------------- C7
\* C7: a batch holds at most BatchLimit rows, the lowest-id rows above the
\* watermark the cycle read; no more rows than the batch holds are dispatched;
\* and when all dispatches succeeded the cycle stores the id of the last row of
\* the batch, so that the rows left out are all above the stored watermark.
C7_BatchCap ==
  /\ [](\A p \in Procs : InLoop(p) =>
          /\ Len(procs[p].batch) <= BatchLimit
          /\ Len(procs[p].att) <= Len(procs[p].batch))
  /\ [][ \A p \in Procs :
           /\ (procs[p].pc = "fetch" /\ InLoop(p)')
              => LET B == {procs'[p].batch[k] : k \in 1..Len(procs'[p].batch)}
                     above == {id \in rows[procs[p].tbl] : id > procs[p].currentTrackedId}
                 IN /\ B \subseteq above
                    /\ Cardinality(B) = MinOf(BatchLimit, Cardinality(above))
                    /\ \A x \in above \ B : \A y \in B : y < x
           /\ (PersistStep(p) /\ procs[p].tbl \in IdTables /\ AllOk(procs[p])
                 /\ procs[p].tbl \in tracked)
              => /\ store'[procs[p].tbl] = procs[p].batch[Len(procs[p].batch)]
                 /\ \A x \in {id \in rows[procs[p].tbl] : id > procs[p].currentTrackedId} :
                      x \in SeqIds(procs[p].att) \/ x > store'[procs[p].tbl] ]_vars

\* a full batch has been dispatched with success and a newer row is waiting
C7_Witness ==
  \E p \in Procs :
    /\ procs[p].tbl \in IdTables
    /\ procs[p].pc = "persist"
    /\ Len(procs[p].batch) = BatchLimit
    /\ Len(procs[p].att) = BatchLimit
    /\ \A k \in 1..BatchLimit : procs[p].att[k].wh = "ok"
    /\ \E id \in rows[procs[p].tbl] : id > procs[p].highestProcessedId


\* ---------------------------------------------------------------- C8
\* the view_count detector is comparing (pc "track" on blog_posts: the
\* projection arrives) or taking a full row (pc "bp_full")
Comparing(p) ==
  \/ procs[p].pc = "track" /\ procs[p].tbl = "blog_posts"
  \/ procs[p].pc = "bp_full"

\* C8: a post observed without a snapshot entry and still present is reported
\* with previous 0, new v, difference v; a post observed with the view_count
\* of its snapshot entry is not reported; a post observed with another
\* view_count w than its entry v is reported with previous v, new w,
\* difference w - v; the entry of a reported post becomes the reported value.
C8_MetricChange ==
  [][ \A p \in Procs :
        (Comparing(p) /\ procs'[p] # procs[p] /\ phase' = "up" /\ NoFailure) =>
          LET pr    == procs[p]
              nx    == procs'[p]
              proj0 == IF pr.pc = "track" THEN Projection ELSE pr.proj
              from  == IF pr.pc = "track" THEN 1 ELSE pr.idx + 1
              upto  == IF nx.pc = "bp_full" THEN nx.idx - 1 ELSE Len(proj0)
              chg0  == IF pr.pc = "track" THEN <<>> ELSE pr.changed
              chg1  == IF nx.pc = "idle" THEN chg0 ELSE nx.changed
          IN \* the row whose full fetch just came back
             /\ (pr.pc = "bp_full" /\ posts[pr.proj[pr.idx].id] # Undefined)
                  => /\ Len(chg1) = Len(chg0) + 1
                     /\ LET c == chg1[Len(chg1)] IN
                          /\ c.id = pr.proj[pr.idx].id
                          /\ c.new_view_count = pr.proj[pr.idx].view_count
                          /\ c.previous_view_count = (IF pr.prev = Undefined THEN 0 ELSE pr.prev)
                          /\ c.difference = c.new_view_count - c.previous_view_count
                          /\ lastKnownBlogPostsState'[c.id] = c.new_view_count
             /\ (pr.pc = "track" \/ posts[pr.proj[pr.idx].id] = Undefined)
                  => chg1 = chg0
             \* the rows compared in this turn and found unchanged
             /\ \A k \in from..upto :
                  lastKnownBlogPostsState'[proj0[k].id] = proj0[k].view_count
             \* the row the comparison stopped at
             /\ nx.pc = "bp_full"
                  => /\ nx.prev = lastKnownBlogPostsState'[nx.proj[nx.idx].id]
                     /\ nx.prev # nx.proj[nx.idx].view_count ]_vars

\* a change from a known, non-zero view_count has been reported
C8_Witness ==
  \E p \in Procs : \E k \in 1..Len(procs[p].changed) :
    /\ procs[p].changed[k].previous_view_count > 0
    /\ procs[p].changed[k].new_view_count # procs[p].changed[k].previous_view_count
    /\ procs[p].changed[k].difference # procs[p].changed[k].new_view_count

\* ---------------------------------------------------------------- C9
\* C9: every row a poll cycle has finished with was handed to each configured
\* sink, and each sink's call ran to completion, whatever the other answered.
C9_SinkIsolation ==
  \A p \in Procs :
    procs[p].tbl \in IdTables =>
      \A k \in 1..Len(procs[p].att) :
        /\ webhookUrl => procs[p].att[k].wh \in {"ok", "fail"}
        /\ emailTransporter => procs[p].att[k].em \in {"ok", "fail"}

\* the webhook failed and the email went out for the same row
C9_Witness ==
  \E p \in Procs : \E k \in 1..Len(procs[p].att) :
    /\ procs[p].tbl \in IdTables
    /\ procs[p].att[k].wh = "fail"
    /\ procs[p].att[k].em = "ok"

\* ---------------------------------------------------------------- C10
\* C10: the rows a poll cycle has dispatched are the rows of its batch, in
\* order and once each; when the loop is over every row of the batch has had
\* its dispatch, whatever the sinks answered for earlier rows.
C10_NoAbort ==
  \A p \in Procs :
    InLoop(p) =>
      /\ Len(procs[p].att) = (IF procs[p].pc = "persist" THEN Len(procs[p].batch)
                              ELSE procs[p].idx - 1)
      /\ \A k \in 1..Len(procs[p].att) : procs[p].att[k].id = procs[p].batch[k]

\* the first row of a batch failed and the later rows were dispatched all the same
C10_Witness ==
  \E p \in Procs :
    /\ InLoop(p)
    /\ procs[p].pc = "persist"
    /\ Len(procs[p].batch) >= 2
    /\ ~RowOk(procs[p].att[1])
    /\ Len(procs[p].att) = Len(procs[p].batch)

\* ---------------------------------------------------------------- C11
\* the process reaches app.listen / createTrackingTable has run
ListenStep == phase = "init" /\ phase' = "up"
SchemaStep == phase = "down" /\ phase' = "init"

\* C11: a boot that found no tracking row for an identifier-tracked table and
\* completed its initialisation leaves the stored and the in-memory watermark
\* of that table at the table's current maximum id, so that the rows already
\* there are below the watermark.
C11_FirstBootNoReplay ==
  [][ (ListenStep /\ isInitialCheckComplete')
        => \A t \in IdTables \cap fresh :
             /\ store'[t] = MaxIdOf(t)
             /\ lastKnownId'[t] = MaxIdOf(t) ]_vars

\* ---------------------------------------------------------------- C12
\* C12: createTrackingTable, on any boot, leaves the last_processed_id of every
\* table that has a tracking row unchanged, removes no row, and gives a table
\* without a row a row with watermark zero.
C12_EnsureSchemaIdempotent ==
  [][ SchemaStep
        => /\ \A t \in tracked : t \in tracked' /\ store'[t] = store[t]
           /\ \A t \in tracked' \ tracked : store'[t] = 0 ]_vars

\* createTrackingTable has run on a restart that found a watermark above zero
\* for one table and no row for another
C12_Witness ==
  /\ phase = "init"
  /\ \E t \in AllTables : t \in tracked /\ t \notin fresh /\ store[t] > 0
  /\ \E t \in fresh : t \in tracked /\ store[t] = 0

\* ---------------------------------------------------------------- C13
\* reset-tracking sends its success answer
ResetAnswerStep == reset.pc = "respond" /\ reset'.pc = "idle" /\ phase' = "up"

\* C13: when reset-tracking answers with success for table T and value v, the
\* stored watermark of T is v right after the answer; v is the resetToId of
\* the request or, without one, the maximum id read from T.
C13_ResetSetsWatermark ==
  [][ /\ ResetAnswerStep => store'[reset.tbl] = reset.resetToId
      /\ (reset.pc = "max" /\ reset'.pc = "update")
           => reset'.resetToId = MaxIdOf(reset.tbl) ]_vars

\* ---------------------------------------------------------------- C14
\* the detection step of the invocation in slot p for its table is over
StepEnds(p) ==
  /\ procs[p].pc # "idle"
  /\ procs'[p].pc = "idle" \/ procs'[p].tbl # procs[p].tbl
  /\ phase' = "up"

\* C14: a detection step whose queries did not fail sets the last_check_time of
\* its table, also when it found no new row and no change.
C14_LivenessTimestamp ==
  [][ \A p \in Procs :
        (StepEnds(p) /\ NoFailure /\ procs[p].tbl \in tracked)
          => lastCheckTime'[procs[p].tbl] # lastCheckTime[procs[p].tbl] ]_vars

\* ---------------------------------------------------------------- C15
\* the order in which checkForNewRecords checks the watched tables
CheckOrder == <<"form_submits", "subscribers", "blog_comments", "blog_posts">>
PlaceOf(t) == CHOOSE k \in 1..Len(CheckOrder) : CheckOrder[k] = t

\* C15: in a timer-driven cycle, when the detection step of a watched table is
\* over, whether its queries succeeded or failed, the cycle goes on with the
\* tracking query of the next watched table; only the end of the blog_posts
\* step ends the cycle.
C15_FailureIsolation ==
  [][ \A p \in Procs :
        (StepEnds(p) /\ procs[p].kind = "timer" /\ procs[p].tbl # "blog_posts")
          => /\ procs'[p].pc = "track"
             /\ procs'[p].kind = "timer"
             /\ procs'[p].tbl = CheckOrder[PlaceOf(procs[p].tbl) + 1] ]_vars

\* after a failed query for an earlier table, the range query of a later table
\* is under way in the same cycle
C15_Witness ==
  \E p \in Procs :
    /\ procs[p].err
    /\ procs[p].kind = "timer"
    /\ procs[p].pc = "fetch"

\* ---------------------------------------------------------------- C16
\* the path segment holds a character outside [A-Za-z0-9_]
HasOtherChar(s) == \E i \in 1..Len(s) : s[i] \notin {"a", "Z", "9", "_"}

\* C16: a request to a table endpoint whose table name holds a character
\* outside [A-Za-z0-9_] is answered 400 and no query is issued for it.
C16_TableNameValidation ==
  (http.pc # "idle" /\ HasOtherChar(http.tableName))
    => /\ http.pc = "answered"
       /\ http.status = 400
       /\ http.queries = 0

\* a request that had nothing wrong but one character of its table name
C16_Witness ==
  /\ http.pc = "answered"
  /\ http.status = 400
  /\ http.body = "row"
  /\ http.query = "fields"
  /\ HasOtherChar(http.tableName)
  /\ \E i \in 1..Len(http.tableName) : ~HasOtherChar(<<http.tableName[i]>>)

\* ---------------------------------------------------------------- C17
\* C17: the server starts to listen only when the tracking table has been
\* created and holds the rows of the watched tables.
C17_StartupFailureFatal ==
  [][ ListenStep => (tableExists' /\ tracked' = AllTables) ]_vars

\* ---------------------------------------------------------------- C18
\* the invocation in slot p has detected rows (or changes) and its UPDATE of
\* the tracking row has not come back yet
Unpersisted(p) ==
  procs[p].pc \in {"webhook", "email", "persist", "bp_full", "bp_hook", "bp_persist"}

\* C18: the process does not exit while a poll cycle is between detection
\* and watermark persistence.
C18_GracefulShutdown ==
  [][ (phase = "up" /\ phase' = "down") => \A p \in Procs : ~Unpersisted(p) ]_vars

\* ---------------------------------------------------------------- C19
\* C19: while the notification a create request triggered is in flight, the
\* answer to the request has already been sent.
C19_FireAndForget ==
  post.pc = "notify" => post.resp # "none"

\* ---------------------------------------------------------------- C20
\* the create request is answered
CreateAnswerStep == post.pc \in {"updating", "notify"} /\ post'.pc = "idle" /\ phase' = "up"

\* C20: a create request whose INSERT succeeded is answered with success,
\* whatever became of the bookkeeping UPDATE and of the notification.
C20_WriteNotDegraded ==
  [][ CreateAnswerStep => post'.resp = "ok" ]_vars

\* ---------------------------------------------------------------- C21
\* no detection cycle, create request or reset-tracking request is in flight
AtRest ==
  /\ phase = "up"
  /\ \A p \in Procs : procs[p].pc = "idle"
  /\ post.pc = "idle"
  /\ reset.pc = "idle"

\* C21: after a boot that completed its initialisation, whenever no poll cycle
\* (and no other writer of the watermark) is in flight, the in-memory watermark
\* of every identifier-tracked table that has a tracking row equals the stored
\* last_processed_id of that table.
C21_MirrorConsistency ==
  (AtRest /\ isInitialCheckComplete)
    => \A t \in IdTables \cap tracked : lastKnownId[t] = store[t]

\* ---------------------------------------------------------------- C22
\* C22: the INSERT a create request issues holds no id column, and a create
\* request whose payload is empty once id is removed is answered 400 and
\* issues no INSERT.
C22_InsertStripsId ==
  (http.pc # "idle" /\ http.ep = "create")
    => /\ "id" \notin http.columns
       /\ (OwnKeys(http.body) \ {"id"} = {})
            => (http.pc = "answered" /\ http.status = 400 /\ http.queries = 0)

\* ---------------------------------------------------------------- C23
\* C23: a create or update request whose extracted payload is not a JSON
\* object is answered 400 and no query is issued for it.
C23_MalformedPayloadRejected ==
  (http.pc # "idle" /\ http.ep \in {"create", "update"} /\ http.body \notin JsonObjects)
    => /\ http.pc = "answered"
       /\ http.status = 400
       /\ http.queries = 0

\* ---------------------------------------------------------------- C24
\* C24, for the handlers that are in flight together: when every sink call so
\* far succeeded, no row of an identifier-tracked table has been handed to the
\* sinks by two detection cycles, nor by a detection cycle and by the create
\* request that inserted it.
C24_NoDuplicateDelivery ==
  /\ \A p, q \in Procs :
       (/\ p # q
        /\ procs[p].tbl \in IdTables
        /\ procs[q].tbl = procs[p].tbl
        /\ AllOk(procs[p]) /\ AllOk(procs[q]))
         => Dispatched(p) \cap Dispatched(q) = {}
  /\ \A p \in Procs :
       (post.pc = "notify" /\ procs[p].tbl = "form_submits" /\ AllOk(procs[p]))
         => post.newRecordId \notin Dispatched(p)

\* ---------------------------------------------------------------- C25
CeilDiv(n, b) == (n + b - 1) \div b

\* the stored watermark of t is at the table's maximum id
Drained(t) == store[t] = MaxIdOf(t)

\* C25: with no insert after the first cycle started and sinks that succeed,
\* once as many cycles have run as the backlog of form_submits has batches
\* (ceil(N / BatchLimit) for N rows), the stored watermark is at the table's
\* maximum id; and a stored watermark that has reached the maximum id of its
\* table stays there, so that later cycles dispatch nothing.
C25_BacklogDrains ==
  /\ []((AtRest /\ CyclesStarted >= CeilDiv(Cardinality(rows["form_submits"]), BatchLimit))
          => Drained("form_submits"))
  /\ [][ \A t \in IdTables : (Drained(t) /\ rows' = rows) => Drained(t)' ]_vars

\* ---------------------------------------------------------------- C26
\* a detection step reads its tracking row and goes on to the range query
ReadStep(p) == procs[p].pc = "track" /\ procs'[p].pc = "fetch"

\* C26 as stated: a cycle that starts on a table while no other cycle is in
\* progress for that table starts from a watermark that is not below any row
\* dispatched before, so that what it dispatches comes after all of them.
C26_Original ==
  [][ \A p \in Procs :
        (/\ ReadStep(p)
         /\ \A q \in Procs : q # p => ~InProgress(q, procs[p].tbl))
        => \A id \in attempted[procs[p].tbl] : id <= procs'[p].currentTrackedId ]_vars

\* C26 as amended: the batch of a poll cycle is in strictly ascending id order
\* and above the watermark the cycle read, its rows are handed to the sinks in
\* that order, and a cycle whose UPDATE lands on its tracking row stores the id
\* of the last row it dispatched, which is where the next cycle starts from.
C26_DispatchOrder ==
  /\ [](\A p \in Procs : InLoop(p) =>
          /\ \A j, k \in 1..Len(procs[p].batch) :
               j < k => procs[p].batch[j] < procs[p].batch[k]
          /\ \A k \in 1..Len(procs[p].batch) :
               procs[p].batch[k] > procs[p].currentTrackedId
          /\ Len(procs[p].att) <= Len(procs[p].batch)
          /\ \A k \in 1..Len(procs[p].att) : procs[p].att[k].id = procs[p].batch[k])
  /\ [][ \A p \in Procs :
           (PersistStep(p) /\ procs[p].tbl \in IdTables \cap tracked)
             => store'[procs[p].tbl] = procs[p].att[Len(procs[p].att)].id ]_vars

\* a cycle has dispatched a row above the row an earlier dispatch stopped at
C26_Witness ==
  \E p \in Procs :
    /\ procs[p].tbl \in IdTables
    /\ procs[p].pc = "persist"
    /\ procs[p].currentTrackedId \in attempted[procs[p].tbl]
    /\ Len(procs[p].att) >= 1

\* ---------------------------------------------------------------- C27
\* the projection arrives and the comparison loop runs
ProjectStep(p) ==
  /\ procs[p].pc = "track" /\ procs[p].tbl = "blog_posts"
  /\ procs'[p] # procs[p]
  /\ phase' = "up"
  /\ NoFailure

\* places of the projection whose row has a view_count other than zero
NonZero == {k \in 1..Len(Projection) : Projection[k].view_count # 0}

BlogStepEnds(p) ==
  /\ procs[p].tbl = "blog_posts"
  /\ procs[p].pc # "idle"
  /\ procs'[p].pc = "idle"
  /\ phase' = "up"

\* C28: when a view-count detection step is over, a change whose webhook call
\* failed is still a change against the snapshot, with the same previous
\* value, so that the next cycle reports it again.
C28_MetricRetry ==
  [][ \A p \in Procs :
        (BlogStepEnds(p) /\ procs[p].pc = "bp_persist")
        => \A k \in 1..Len(procs[p].att) :
             procs[p].att[k].wh = "fail"
             => LET c == procs[p].changed[k]
                    e == lastKnownBlogPostsState'[c.id]
                IN /\ isChanged(e, c.new_view_count)
                   /\ changeDetails(e, c.new_view_count).previous_view_count
                        = c.previous_view_count ]_vars

\* ---------------------------------------------------------------- C29
\* C29: when a view-count detection step whose queries did not fail is over,
\* the snapshot entry of every row of its projection is the view_count the
\* projection held for that row, for a row that was reported, for a row that
\* was found unchanged, and for a row that was gone when its full row was
\* fetched.
C29_SnapshotTracksObserved ==
  [][ \A p \in Procs :
        (BlogStepEnds(p) /\ NoFailure /\ ~procs[p].err)
        => LET proj0 == IF procs[p].pc = "track" THEN Projection ELSE procs[p].proj
           IN \A k \in 1..Len(proj0) :
                lastKnownBlogPostsState'[proj0[k].id] = proj0[k].view_count ]_vars

\* ---------------------------------------------------------------- C30
\* C30: while the service runs, no step removes the tracking row of a watched
\* table from webhook_processed_records.
C30_TrackingRowsPermanent ==
  [][ phase = "up" => \A t \in tracked : t \in tracked' ]_vars

\* ---------------------------------------------------------------- C31
\* the tracking query of a detection step comes back without a row
NoRowStep(p) ==
  /\ procs[p].pc = "track"
  /\ procs[p].tbl \in IdTables \ tracked
  /\ procs'[p] # procs[p]
  /\ phase' = "up"
  /\ NoFailure

\* C31: a detection step that finds no tracking row for its table is over at
\* once: it has logged the error, it has issued no range query and dispatched
\* no row, and the tracking store and the in-memory watermarks are as before.
C31_UnregisteredTable ==
  [][ \A p \in Procs :
        NoRowStep(p)
        => /\ StepEnds(p)
           /\ procs'[p].pc # "idle" => procs'[p].missing
           /\ procs'[p].att = <<>> /\ procs'[p].batch = <<>>
           /\ attempted' = attempted
           /\ store' = store /\ tracked' = tracked /\ lastCheckTime' = lastCheckTime
           /\ lastKnownId' = lastKnownId ]_vars

\* a timer cycle goes on with another table after it found a table that holds
\* rows but has no tracking row
C31_Witness ==
  \E p \in Procs :
    /\ procs[p].missing
    /\ \E t \in IdTables \ tracked : rows[t] # {}

\* ---------------------------------------------------------------- C32
\* C32: while isInitialCheckComplete is false, no step of a detection run,
\* whether started by the timer or by POST /api/force-check, hands a row to a
\* sink or writes a tracking row or an in-memory watermark.
C32_InitialisationGate ==
  [][ (phase = "up" /\ phase' = "up" /\ ~isInitialCheckComplete)
      => \A p \in Procs :
           procs'[p] # procs[p]
           => /\ procs'[p].pc \notin {"webhook", "email", "persist"}
              /\ Len(procs'[p].att) <= Len(procs[p].att)
              /\ store' = store /\ lastCheckTime' = lastCheckTime
              /\ lastKnownId' = lastKnownId ]_vars

\* ---------------------------------------------------------------- C33
\* a sink was configured and was called for the row
Delivered(a) == a.wh \in {"ok", "fail"} \/ a.em \in {"ok", "fail"}

\* C33: the UPDATE of a detection step moves the watermark only past rows that
\* a sink was called for, and with neither the webhook URL nor the email
\* transporter configured no step of a detection run moves a watermark.
C33_NoSinkNoConsumption ==
  [][ \A p \in Procs :
        /\ PersistStep(p)
           => \A k \in 1..Len(procs[p].att) :
                procs[p].att[k].id <= store'[procs[p].tbl] => Delivered(procs[p].att[k])
        /\ (procs'[p] # procs[p] /\ phase' = "up" /\ ~webhookUrl /\ ~emailTransporter)
           => store' = store /\ lastKnownId' = lastKnownId ]_vars

\* ---------------------------------------------------------------- C34
\* a step of the detection step that the invocation in slot p runs
DetectionStep(p) ==
  /\ procs[p].pc # "idle"
  /\ procs'[p] # procs[p]
  /\ phase' = "up"

\* C34: a step of the detection step for table t leaves the tracking rows
\* (last_processed_id, last_check_time, presence) and the in-memory watermarks
\* of the other watched tables as they are, and it leaves the view-count
\* snapshot as it is unless t is blog_posts.
C34_CrossTableFrame ==
  [][ \A p \in Procs :
        DetectionStep(p)
        => LET t == procs[p].tbl
           IN /\ \A u \in AllTables \ {t} :
                   /\ store'[u] = store[u]
                   /\ lastCheckTime'[u] = lastCheckTime[u]
                   /\ (u \in tracked') = (u \in tracked)
              /\ \A u \in IdTables \ {t} : lastKnownId'[u] = lastKnownId[u]
              /\ t # "blog_posts" => lastKnownBlogPostsState' = lastKnownBlogPostsState
     ]_vars

\* a detection step has moved the tracking row and the in-memory watermark of
\* one table to a row it dispatched, and another table that holds rows has its
\* tracking row at a different, non-zero value
C34_Witness ==
  \E t, u \in IdTables :
    /\ t # u
    /\ store[t] \in attempted[t] /\ lastKnownId[t] = store[t]
    /\ store[u] > 0 /\ store[u] # store[t]

\* ---------------------------------------------------------------- C35
\* C35: a DELETE request whose last path segment is 'where' is handled by the
\* conditional-delete route and never by the delete-by-id route; without a
\* query parameter it is answered 400 and no statement is issued; and the
\* statement it issues has at least one condition, each of them the comparison
\* of a validated field with a value of the query string.
C35_ConditionalDelete ==
  http.pc # "idle" /\ http.segment = "where"
  => /\ http.ep = "deleteWhere"
     /\ http.query = "none" => http.status = 400 /\ http.queries = 0
     /\ http.queries > 0
        => /\ ValidTableName(http.tableName)
           /\ http.where # {}
           /\ \A c \in http.where : c = "field = value"

====
